---- MODULE Spec2Model ----
(***************************************************************************)
(* Model of the reconciliation service of firmannf/recon:                  *)
(*   internal/service/reconciliation.go  (Reconcile, performReconciliation,*)
(*                                        the two date-range filters)      *)
(*   internal/service  match strategy     (ExactMatchStrategy)             *)
(*   internal/parser                      (ParseCSV, ParseMultipleCSVs,    *)
(*                                        readCSVFile)                     *)
(*   internal/models                      (Transaction, BankStatementLine, *)
(*                                        ReconciliationResult)            *)
(*                                                                         *)
(* Time is a number of seconds; every time of the program is in the same   *)
(* location (Asia/Jakarta), so a calendar date is seconds \div 86400.      *)
(* A decimal is [value, exp] meaning value * 10^exp, as in                 *)
(* shopspring/decimal.                                                     *)
(***************************************************************************)
EXTENDS Integers, Sequences, FiniteSets, TLC

VARIABLES
    runs,               \* concurrent calls of Reconcile: run id -> the call's input and locals
    flags,              \* the command line's -start and -end, as main reads them
    sysFile,            \* input.SystemTransactionFile: the file and its data rows
    bankFiles,          \* input.BankStatementFiles: the files, in list order
    strategy,           \* input.MatchStrategy
    startDate,          \* input.StartDate
    endDate,            \* input.EndDate (Reconcile's own copy, defaulted when zero)
    givenEndDate,       \* history: input.EndDate as the caller passed it
    pc,                 \* position of Reconcile
    systemTxs,          \* systemTransactions / systemTxs
    bankStmts,          \* bankStatements / bankStmts
    bankStmtIndex,      \* map[string][]int of performReconciliation
    matchedSystemTxs,   \* map[int]bool, as the set of indices mapped to true
    matchedBankStmts,   \* map[int]bool, as the set of indices mapped to true
    sysIdx,             \* position of the pairing loop (1-based)
    result,             \* *models.ReconciliationResult under construction
    ret,                \* what Reconcile returned: "none", "ok" (result, nil), "error" (nil, err)
    pairs               \* history: the <<sysIdx, bankIdx>> chosen at lines 119-123

vars == <<runs, flags, sysFile, bankFiles, strategy, startDate, endDate, givenEndDate, pc, systemTxs, bankStmts,
          bankStmtIndex, matchedSystemTxs, matchedBankStmts, sysIdx, result, ret, pairs>>

-----------------------------------------------------------------------------
(* Bounds of the model *)

MaxSys == 2     \* data rows of the system transaction file
MaxBank == 3    \* data rows of all bank statement files together

-----------------------------------------------------------------------------
(* Time *)

SecondsPerDay == 86400

\* 23*time.Hour + 59*time.Minute + 59*time.Second
EndOfDayOffset == 23 * 3600 + 59 * 60 + 59

\* time.Time{}: the zero instant, far before every date of a file
ZeroTime == 0

IsZeroTime(t) == t = ZeroTime

\* t.Before(u), t.After(u)
Before(t, u) == t < u
After(t, u) == t > u

\* date.Format("2006-01-02"): the calendar date of an instant
FormatDate(t) == t \div SecondsPerDay

\* midnight of day d, and an instant of day d
Day(d) == d * SecondsPerDay
At(d, h, m, s) == Day(d) + h * 3600 + m * 60 + s

-----------------------------------------------------------------------------
(* decimal.Decimal *)

Dec(v, e) == [value |-> v, exp |-> e]

RECURSIVE Pow10(_)
Pow10(n) == IF n <= 0 THEN 1 ELSE 10 * Pow10(n - 1)

MinInt(a, b) == IF a <= b THEN a ELSE b

\* d.rescale(e) for e <= d.exp: the same number with exponent e
Rescale(d, e) == Dec(d.value * Pow10(d.exp - e), e)

DecAbs(d) == Dec(IF d.value < 0 THEN -d.value ELSE d.value, d.exp)
DecIsNegative(d) == d.value < 0
DecIsZero(d) == d.value = 0
DecSub(a, b) ==
    LET e == MinInt(a.exp, b.exp)
    IN  Dec(Rescale(a, e).value - Rescale(b, e).value, e)
DecAdd(a, b) ==
    LET e == MinInt(a.exp, b.exp)
    IN  Dec(Rescale(a, e).value + Rescale(b, e).value, e)

\* decimal.Zero
DecZero == Dec(0, 0)

\* d.String(): the digits with trailing fractional zeros trimmed, so "1000.00",
\* "1000.0" and "1000" all print as "1000".  The printed text is represented by
\* the trimmed (value, exp) pair, which determines the text and is determined by it.
RECURSIVE TrimZeros(_)
TrimZeros(d) ==
    IF d.exp < 0 /\ d.value % 10 = 0
    THEN TrimZeros(Dec(d.value \div 10, d.exp + 1))
    ELSE d

DecString(d) == IF d.exp >= 0 THEN Rescale(d, 0) ELSE TrimZeros(d)

-----------------------------------------------------------------------------
(* models *)

TransactionTypeDebit == "DEBIT"
TransactionTypeCredit == "CREDIT"

\* (*BankStatementLine).GetAbsoluteAmount
GetAbsoluteAmount(bs) == DecAbs(bs.Amount)

-----------------------------------------------------------------------------
(* Match strategies *)

\* (variant) the amount enters the key as stored, not as printed
ExactBuildKeyStoredAmount(trxType, amount, date, id) ==
    <<trxType, amount, FormatDate(date)>>

\* (variant) the key leaves the date out
ExactBuildKeyNoDate(trxType, amount, date, id) ==
    <<trxType, DecString(amount)>>

\* (variant) the key leaves the amount out
ExactBuildKeyNoAmount(trxType, amount, date, id) ==
    <<trxType, FormatDate(date)>>

\* (variant) the id is part of the key
ExactBuildKeyWithId(trxType, amount, date, id) ==
    <<trxType, DecString(amount), FormatDate(date), id>>

\* ExactMatchStrategy.BuildKey: fmt.Sprintf("%s_%s_%s", trxType, amount.String(),
\* date.Format("2006-01-02")); the id is not used
ExactBuildKey(trxType, amount, date, id) ==
    <<trxType, DecString(amount), FormatDate(date)>>

\* ExactMatchStrategy.IsMatch
ExactIsMatch(sysTrx, bankStmt) == TRUE

\* A strategy of the "TYPE_DATE" kind named by performReconciliation's comment:
\* the key leaves the amount out, every candidate of the bucket is admitted
TypeDateBuildKey(trxType, amount, date, id) == <<trxType, FormatDate(date)>>
TypeDateIsMatch(sysTrx, bankStmt) == TRUE

\* A strategy whose IsMatch validates the candidates of a "TYPE_DATE" bucket:
\* it admits only an equal amount
ValidatingBuildKey(trxType, amount, date, id) == <<trxType, FormatDate(date)>>
ValidatingIsMatch(sysTrx, bankStmt) ==
    DecIsZero(DecSub(sysTrx.Amount, GetAbsoluteAmount(bankStmt)))

\* MatchStrategy: dispatch on the implementation
BuildKey(st, trxType, amount, date, id) ==
    CASE st = "ExactMatch" -> ExactBuildKey(trxType, amount, date, id)
      [] st = "TypeDate"   -> TypeDateBuildKey(trxType, amount, date, id)
      [] st = "Validating" -> ValidatingBuildKey(trxType, amount, date, id)

IsMatch(st, sysTrx, bankStmt) ==
    CASE st = "ExactMatch" -> ExactIsMatch(sysTrx, bankStmt)
      [] st = "TypeDate"   -> TypeDateIsMatch(sysTrx, bankStmt)
      [] st = "Validating" -> ValidatingIsMatch(sysTrx, bankStmt)

-----------------------------------------------------------------------------
(* parser *)

headerRowCount == 1
transactionColumnCount == 4
bankStatementColumnCount == 3

\* A file is [name, ext, exists, header, rows]: header is the number of fields of
\* the header record (0 when the file holds no record at all) and rows are the
\* records after it.  A row carries its cells as parsed values, its number of
\* fields (cols) and the set of columns whose text does not parse (invalid).

\* strings.ToLower, on the extensions that occur
ToLower(ext) == IF ext = ".CSV" THEN ".csv" ELSE ext

\* validateCSVExtension
validateCSVExtension(file) == ToLower(file.ext) = ".csv"

\* extractFileName: the base name without its extension
extractFileName(file) == file.name

\* csv.Reader.ReadAll (FieldsPerRecord = 0): every record must have as many
\* fields as the first one
csvReadAllOK(file) == \A i \in 1..Len(file.rows) : file.rows[i].cols = file.header

\* len(records)
RecordCount(file) == IF file.header = 0 THEN 0 ELSE headerRowCount + Len(file.rows)

\* (variant) a file without data rows is read as a file of no records
readCSVFileOKWithoutRows(file) ==
    /\ validateCSVExtension(file)
    /\ file.exists
    /\ csvReadAllOK(file)

\* readCSVFile: the records of the file (header included), or an error
readCSVFileOK(file) ==
    /\ validateCSVExtension(file)
    /\ file.exists
    /\ csvReadAllOK(file)
    /\ ~(RecordCount(file) <= headerRowCount)

\* TransactionParser.ParseCSV: one Transaction per data row, in row order
\* lines 42-60: the checks on one record
TransactionRecordOK(record) ==
    /\ ~(record.cols < transactionColumnCount)
    /\ "amount" \notin record.invalid
    /\ record.type \in {TransactionTypeDebit, TransactionTypeCredit}
    /\ "transactionTime" \notin record.invalid

TransactionParseCSVOK(file) ==
    /\ readCSVFileOK(file)
    /\ \A i \in 1..Len(file.rows) : TransactionRecordOK(file.rows[i])
TransactionParseCSV(file) ==
    [i \in 1..Len(file.rows) |->
        [TrxID           |-> file.rows[i].trxID,
         Amount          |-> file.rows[i].amount,
         Type            |-> file.rows[i].type,
         TransactionTime |-> file.rows[i].transactionTime]]

\* (variant) a zero amount is taken for a debit
DeriveTypeZeroDebit(amount) ==
    IF amount.value <= 0 THEN TransactionTypeDebit ELSE TransactionTypeCredit

\* the type a bank line gets from the sign of its amount
DeriveType(amount) ==
    IF DecIsNegative(amount) THEN TransactionTypeDebit ELSE TransactionTypeCredit

\* BankStatementParser.ParseCSV: one BankStatementLine per data row, in row order
\* lines 46-58: the checks on one record
BankRecordOK(record) ==
    /\ ~(record.cols # bankStatementColumnCount)
    /\ "amount" \notin record.invalid
    /\ "date" \notin record.invalid

BankParseCSVOK(file) ==
    /\ readCSVFileOK(file)
    /\ \A i \in 1..Len(file.rows) : BankRecordOK(file.rows[i])
BankParseCSV(file) ==
    [i \in 1..Len(file.rows) |->
        [UniqueIdentifier |-> file.rows[i].unique_identifier,
         Amount           |-> file.rows[i].amount,
         Type             |-> DeriveType(file.rows[i].amount),
         Date             |-> file.rows[i].date,
         BankName         |-> extractFileName(file)]]

\* (variant) the lines of a later file are put before those of the earlier files
RECURSIVE ParseMultipleCSVsLastFirst(_)
ParseMultipleCSVsLastFirst(files) ==
    IF files = <<>> THEN <<>>
    ELSE BankParseCSV(files[Len(files)])
            \o ParseMultipleCSVsLastFirst(SubSeq(files, 1, Len(files) - 1))

\* (variant) only the first file of the list is checked
ParseMultipleCSVsOKFirstFile(files) == files = <<>> \/ BankParseCSVOK(files[1])

\* BankStatementParser.ParseMultipleCSVs: the lines of every file, in list order
ParseMultipleCSVsOK(files) == \A i \in 1..Len(files) : BankParseCSVOK(files[i])
RECURSIVE ParseMultipleCSVs(_)
ParseMultipleCSVs(files) ==
    IF files = <<>> THEN <<>>
    ELSE ParseMultipleCSVs(SubSeq(files, 1, Len(files) - 1))
            \o BankParseCSV(files[Len(files)])

-----------------------------------------------------------------------------
(* service: filters *)

\* (variant) the end of the range is exclusive
KeepTransactionBeforeEnd(trx, start, end) ==
    ~Before(trx.TransactionTime, start) /\ Before(trx.TransactionTime, end)

KeepTransaction(trx, start, end) ==
    ~Before(trx.TransactionTime, start) /\ ~After(trx.TransactionTime, end)

\* (variant) a statement line dated exactly at the start is dropped
KeepStatementAfterStart(stmt, start, end) ==
    After(stmt.Date, start) /\ ~After(stmt.Date, end)

KeepStatement(stmt, start, end) ==
    ~Before(stmt.Date, start) /\ ~After(stmt.Date, end)

\* filterTransactionsByDateRange: the kept transactions, in order
RECURSIVE filterTransactionsByDateRange(_, _, _)
filterTransactionsByDateRange(transactions, start, end) ==
    IF transactions = <<>> THEN <<>>
    ELSE LET n == Len(transactions)
             filtered == filterTransactionsByDateRange(SubSeq(transactions, 1, n - 1), start, end)
         IN  IF KeepTransaction(transactions[n], start, end)
             THEN Append(filtered, transactions[n])
             ELSE filtered

\* (variant) no statement line is dropped
filterBankStatementsKeepAll(statements, start, end) == statements

\* filterBankStatementsByDateRange: the kept statement lines, in order
RECURSIVE filterBankStatementsByDateRange(_, _, _)
filterBankStatementsByDateRange(statements, start, end) ==
    IF statements = <<>> THEN <<>>
    ELSE LET n == Len(statements)
             filtered == filterBankStatementsByDateRange(SubSeq(statements, 1, n - 1), start, end)
         IN  IF KeepStatement(statements[n], start, end)
             THEN Append(filtered, statements[n])
             ELSE filtered

-----------------------------------------------------------------------------
(* service: performReconciliation *)

\* a Go map with no entry
EmptyMap == [k \in {} |-> <<>>]

\* (variant) the entry is replaced by the new element instead of appended to
MapAppendOverwrite(m, k, v) ==
    IF k \in DOMAIN m THEN [m EXCEPT ![k] = <<v>>] ELSE m @@ (k :> <<v>>)

\* m[k] = append(m[k], v)
MapAppend(m, k, v) ==
    IF k \in DOMAIN m THEN [m EXCEPT ![k] = Append(@, v)] ELSE m @@ (k :> <<v>>)

BankKey(st, bankStmt) ==
    BuildKey(st, bankStmt.Type, GetAbsoluteAmount(bankStmt), bankStmt.Date,
             bankStmt.UniqueIdentifier)

SysKey(st, sysTrx) ==
    BuildKey(st, sysTrx.Type, sysTrx.Amount, sysTrx.TransactionTime, sysTrx.TrxID)

\* (variant) the positions of a bucket are kept newest first
RECURSIVE BuildIndexNewestFirst(_, _, _)
BuildIndexNewestFirst(st, stmts, n) ==
    IF n = 0 THEN EmptyMap
    ELSE LET m == BuildIndexNewestFirst(st, stmts, n - 1)
             k == BankKey(st, stmts[n])
         IN  IF k \in DOMAIN m THEN [m EXCEPT ![k] = <<n>> \o @] ELSE m @@ (k :> <<n>>)

\* the index over the first n bank statement lines: key -> positions, ascending
RECURSIVE BuildIndex(_, _, _)
BuildIndex(st, stmts, n) ==
    IF n = 0 THEN EmptyMap
    ELSE MapAppend(BuildIndex(st, stmts, n - 1), BankKey(st, stmts[n]), n)

\* (variant) the bucket is walked from its end: the last free candidate is taken
FirstCandidateFromEnd(st, sysTrx, stmts, candidates, consumed, c) ==
    LET free == {x \in c..Len(candidates) :
                    /\ candidates[x] \notin consumed
                    /\ IsMatch(st, sysTrx, stmts[candidates[x]])}
    IN  IF free = {} THEN 0
        ELSE candidates[CHOOSE x \in free : \A y \in free : y <= x]

\* (variant) the inner loop gives up at the first candidate it cannot take
FirstCandidateHeadOnly(st, sysTrx, stmts, candidates, consumed, c) ==
    IF c > Len(candidates) THEN 0
    ELSE IF candidates[c] \in consumed THEN 0
    ELSE IF ~IsMatch(st, sysTrx, stmts[candidates[c]]) THEN 0
    ELSE candidates[c]

\* (variant) the inner loop without the check of lines 110-112
RECURSIVE FirstCandidateNoSkip(_, _, _, _, _, _)
FirstCandidateNoSkip(st, sysTrx, stmts, candidates, consumed, c) ==
    IF c > Len(candidates) THEN 0
    ELSE IF ~IsMatch(st, sysTrx, stmts[candidates[c]])
         THEN FirstCandidateNoSkip(st, sysTrx, stmts, candidates, consumed, c + 1)
    ELSE candidates[c]

\* the inner loop: the first candidate from position c on that is neither
\* consumed nor refused by IsMatch; 0 when the loop ends without a match
RECURSIVE FirstCandidate(_, _, _, _, _, _)
FirstCandidate(st, sysTrx, stmts, candidates, consumed, c) ==
    IF c > Len(candidates) THEN 0
    ELSE IF candidates[c] \in consumed
         THEN FirstCandidate(st, sysTrx, stmts, candidates, consumed, c + 1)
    ELSE IF ~IsMatch(st, sysTrx, stmts[candidates[c]])
         THEN FirstCandidate(st, sysTrx, stmts, candidates, consumed, c + 1)
    ELSE candidates[c]

\* the candidate chosen for a system transaction; 0 when it stays unmatched
FindMatch(st, sysTrx, stmts, index, consumed) ==
    LET key == SysKey(st, sysTrx)
    IN  IF key \in DOMAIN index
        THEN FirstCandidate(st, sysTrx, stmts, index[key], consumed, 1)
        ELSE 0

\* (variant) the signed difference is added, not its absolute value
AddDiscrepancySigned(total, sysTrx, bankStmt) ==
    LET bankAbsAmount == GetAbsoluteAmount(bankStmt)
        diff == DecSub(sysTrx.Amount, bankAbsAmount)
    IN  IF ~DecIsZero(diff) THEN DecAdd(total, diff) ELSE total

\* lines 126-133: the discrepancy total after a matched pair
AddDiscrepancy(total, sysTrx, bankStmt) ==
    LET bankAbsAmount == GetAbsoluteAmount(bankStmt)
        diff == DecAbs(DecSub(sysTrx.Amount, bankAbsAmount))
    IN  IF ~DecIsZero(diff) THEN DecAdd(total, diff) ELSE total

\* (variant) the collection without the check of line 146
RECURSIVE CollectEveryLine(_, _, _)
CollectEveryLine(stmts, consumed, n) ==
    IF n = 0 THEN EmptyMap
    ELSE MapAppend(CollectEveryLine(stmts, consumed, n - 1), stmts[n].BankName, stmts[n])

\* (variant) the matched total counts the two records of a pair
MatchedResultCountingRecords(res, sysTrx, bankStmt) ==
    [res EXCEPT !.TotalMatchedTransactions = @ + 2,
                !.TotalDiscrepancies = AddDiscrepancy(@, sysTrx, bankStmt)]

\* lines 119-133: the result after a matched pair
MatchedResult(res, sysTrx, bankStmt) ==
    [res EXCEPT !.TotalMatchedTransactions = @ + 1,
                !.TotalDiscrepancies = AddDiscrepancy(@, sysTrx, bankStmt)]

\* (variant) the unmatched system transaction is put in front of the list
UnmatchedResultPrepend(res, sysTrx) ==
    [res EXCEPT !.UnmatchedSystemTransactions = <<sysTrx>> \o @]

\* lines 139-141: the result after a system transaction that found no match
UnmatchedResult(res, sysTrx) ==
    [res EXCEPT !.UnmatchedSystemTransactions = Append(@, sysTrx)]

\* (variant) every bank of the in-range lines gets a key, matched lines included
RECURSIVE CollectUnmatchedEveryBank(_, _, _)
CollectUnmatchedEveryBank(stmts, consumed, n) ==
    IF n = 0 THEN EmptyMap
    ELSE LET m == CollectUnmatchedEveryBank(stmts, consumed, n - 1)
             k == stmts[n].BankName
             withKey == IF k \in DOMAIN m THEN m ELSE m @@ (k :> <<>>)
         IN  IF n \notin consumed THEN MapAppend(withKey, k, stmts[n]) ELSE withKey

\* (variant) a line is put in front of its group instead of behind it
RECURSIVE CollectUnmatchedNewestFirst(_, _, _)
CollectUnmatchedNewestFirst(stmts, consumed, n) ==
    IF n = 0 THEN EmptyMap
    ELSE LET m == CollectUnmatchedNewestFirst(stmts, consumed, n - 1)
             k == stmts[n].BankName
         IN  IF n \in consumed THEN m
             ELSE IF k \in DOMAIN m THEN [m EXCEPT ![k] = <<stmts[n]>> \o @]
             ELSE m @@ (k :> <<stmts[n]>>)

\* lines 145-155: the lines among the first n that were never consumed, grouped
\* by bank name
RECURSIVE CollectUnmatched(_, _, _)
CollectUnmatched(stmts, consumed, n) ==
    IF n = 0 THEN EmptyMap
    ELSE LET m == CollectUnmatched(stmts, consumed, n - 1)
         IN  IF n \notin consumed THEN MapAppend(m, stmts[n].BankName, stmts[n]) ELSE m

\* lines 159-162: len(unmatched system) + the length of every group
RECURSIVE SumLens(_, _)
SumLens(m, keys) ==
    IF keys = {} THEN 0
    ELSE LET k == CHOOSE x \in keys : TRUE
         IN  Len(m[k]) + SumLens(m, keys \ {k})

\* (variant) the larger of the two sides
TotalProcessedMax(systemRecords, bankRecords) ==
    IF Len(systemRecords) >= Len(bankRecords) THEN Len(systemRecords) ELSE Len(bankRecords)

\* line 158
TotalProcessed(systemRecords, bankRecords) == Len(systemRecords) + Len(bankRecords)

\* (variant) every source counts once, however many lines its group holds
TotalUnmatchedGroups(res) ==
    Len(res.UnmatchedSystemTransactions) + Cardinality(DOMAIN res.UnmatchedBankStatementLines)

TotalUnmatched(res) ==
    Len(res.UnmatchedSystemTransactions)
        + SumLens(res.UnmatchedBankStatementLines, DOMAIN res.UnmatchedBankStatementLines)

\* the ReconciliationResult before performReconciliation fills it
EmptyResult ==
    [TotalSystemTransactions     |-> 0,
     TotalBankStatementLines     |-> 0,
     TotalTransactionsProcessed  |-> 0,
     TotalMatchedTransactions    |-> 0,
     TotalUnmatchedTransactions  |-> 0,
     UnmatchedSystemTransactions |-> <<>>,
     UnmatchedBankStatementLines |-> EmptyMap,
     TotalDiscrepancies          |-> DecZero]

-----------------------------------------------------------------------------
(* Inputs *)

D1 == 19737    \* 2024-01-15
D2 == 19738    \* 2024-01-16

Range(s) == {s[i] : i \in DOMAIN s}

SeqsUpTo(S, n) == UNION {[1..k -> S] : k \in 0..n}

\* data rows of a system transaction file
SystemRows ==
    { [trxID |-> "TRX001", amount |-> Dec(100000, -2), type |-> "CREDIT",
       transactionTime |-> At(D1, 0, 0, 0)],
      [trxID |-> "TRX002", amount |-> Dec(1000, 0), type |-> "CREDIT",
       transactionTime |-> At(D1, 23, 59, 59)],
      [trxID |-> "TRX003", amount |-> Dec(50050, -2), type |-> "DEBIT",
       transactionTime |-> At(D1, 10, 30, 0)],
      [trxID |-> "TRX004", amount |-> Dec(50050, -2), type |-> "CREDIT",
       transactionTime |-> At(D2, 23, 59, 59)] }

\* data rows of a bank statement file
BankRows ==
    { [unique_identifier |-> "BANK-001", amount |-> Dec(100000, -2), date |-> Day(D1)],
      [unique_identifier |-> "BANK-002", amount |-> Dec(-50050, -2), date |-> Day(D1)],
      [unique_identifier |-> "BANK-003", amount |-> Dec(100000, -2), date |-> Day(D2)] }

\* rows of one calendar date and one type with two amounts, for the strategies
\* whose key leaves the amount out
SameDayRows ==
    { [trxID |-> "TRX011", amount |-> Dec(100000, -2), type |-> "CREDIT",
       transactionTime |-> At(D1, 10, 30, 0)],
      [trxID |-> "TRX012", amount |-> Dec(50050, -2), type |-> "CREDIT",
       transactionTime |-> At(D1, 14, 22, 0)],
      [trxID |-> "TRX013", amount |-> Dec(50050, -2), type |-> "DEBIT",
       transactionTime |-> At(D1, 9, 0, 0)] }

SameDayBankRows ==
    { [unique_identifier |-> "BANK-011", amount |-> Dec(100000, -2), date |-> Day(D1)],
      [unique_identifier |-> "BANK-012", amount |-> Dec(5005, -1), date |-> Day(D1)],
      [unique_identifier |-> "BANK-013", amount |-> Dec(-50050, -2), date |-> Day(D1)] }

\* rows of one day with a positive, a negative and a zero bank amount
SignRows ==
    { [trxID |-> "TRX021", amount |-> Dec(100050, -2), type |-> "CREDIT",
       transactionTime |-> At(D1, 8, 0, 0)],
      [trxID |-> "TRX022", amount |-> Dec(250, 0), type |-> "DEBIT",
       transactionTime |-> At(D1, 9, 0, 0)],
      [trxID |-> "TRX023", amount |-> Dec(0, -2), type |-> "CREDIT",
       transactionTime |-> At(D1, 10, 0, 0)] }

SignBankRows ==
    { [unique_identifier |-> "BANK-021", amount |-> Dec(100050, -2), date |-> Day(D1)],
      [unique_identifier |-> "BANK-022", amount |-> Dec(-250, 0), date |-> Day(D1)],
      [unique_identifier |-> "BANK-023", amount |-> Dec(0, -2), date |-> Day(D1)] }

\* the rows as records of n fields whose cells all parse
WellFormed(r, n) == [i \in DOMAIN r |-> r[i] @@ [cols |-> n, invalid |-> {}]]

\* a file that exists, with a header of n fields and the given rows
CSVFile(name, n, r) ==
    [name |-> name, ext |-> ".csv", exists |-> TRUE, header |-> n, rows |-> WellFormed(r, n)]

SystemFiles(rows) ==
    { CSVFile("transactions", transactionColumnCount, r) : r \in SeqsUpTo(rows, MaxSys) }

\* the bank statement file lists: no file, one file, or two files of two banks
BankFileLists(rows) ==
    LET File(n, r) == CSVFile(n, bankStatementColumnCount, r)
        R == SeqsUpTo(rows, MaxBank)
    IN  {<<>>}
        \cup { <<File("bca", r)>> : r \in R }
        \cup { <<File("bca", r[1]), File("bni", r[2])>> :
                 r \in {q \in R \X R : Len(q[1]) + Len(q[2]) <= MaxBank} }

\* the ways a file can differ from the standard format (the parsers' error cases)
Missing(f) == [f EXCEPT !.exists = FALSE]
WithExtension(f, e) == [f EXCEPT !.ext = e]
NoRecords(f) == [f EXCEPT !.header = 0, !.rows = <<>>]
HeaderOnly(f) == [f EXCEPT !.rows = <<>>]
\* the header and every row have n fields
WithColumns(f, n) ==
    [f EXCEPT !.header = n, !.rows = [i \in DOMAIN f.rows |-> [f.rows[i] EXCEPT !.cols = n]]]
\* row i alone has n fields
RowWithColumns(f, i, n) == [f EXCEPT !.rows[i].cols = n]
\* the text of a cell of row i does not parse
InvalidCell(f, i, column) == [f EXCEPT !.rows[i].invalid = {column}]
InvalidType(f, i, t) == [f EXCEPT !.rows[i].type = t]

FileSystemRows ==
    << [trxID |-> "TRX031", amount |-> Dec(100000, -2), type |-> "CREDIT",
        transactionTime |-> At(D1, 10, 30, 0)],
       [trxID |-> "TRX032", amount |-> Dec(50050, -2), type |-> "DEBIT",
        transactionTime |-> At(D1, 11, 0, 0)] >>

FileBankRows ==
    << [unique_identifier |-> "BANK-031", amount |-> Dec(100000, -2), date |-> Day(D1)],
       [unique_identifier |-> "BANK-032", amount |-> Dec(-50050, -2), date |-> Day(D1)] >>

\* a system transaction file in the standard format, and its faulty variants
FaultySystemFiles ==
    LET f == CSVFile("transactions", transactionColumnCount, FileSystemRows)
    IN  { f, WithExtension(f, ".CSV"),
          Missing(f), WithExtension(f, ".txt"), NoRecords(f), HeaderOnly(f),
          WithColumns(f, transactionColumnCount - 1), WithColumns(f, transactionColumnCount + 1),
          RowWithColumns(f, 2, transactionColumnCount - 1),
          RowWithColumns(f, 2, transactionColumnCount + 1),
          InvalidCell(f, 1, "amount"), InvalidCell(f, 2, "transactionTime"),
          InvalidType(f, 2, "PAYMENT"), InvalidType(f, 1, "") }

\* a bank statement file in the standard format, and its faulty variants
FaultyBankFiles(name, rows) ==
    LET f == CSVFile(name, bankStatementColumnCount, rows)
    IN  { f, WithExtension(f, ".CSV"),
          Missing(f), WithExtension(f, ".txt"), NoRecords(f), HeaderOnly(f),
          WithColumns(f, bankStatementColumnCount - 1),
          WithColumns(f, bankStatementColumnCount + 1),
          RowWithColumns(f, 1, bankStatementColumnCount - 1),
          RowWithColumns(f, 1, bankStatementColumnCount + 1),
          InvalidCell(f, 1, "amount"), InvalidCell(f, 1, "date") }

\* no bank file, one, or two of two banks, each in the standard format or faulty
FaultyBankFileLists ==
    {<<>>}
    \cup { <<a>> : a \in FaultyBankFiles("bca", FileBankRows) }
    \cup { <<a, b>> : a \in FaultyBankFiles("bca", FileBankRows),
                       b \in FaultyBankFiles("bni", SubSeq(FileBankRows, 1, 1)) }

\* <<StartDate, EndDate>>
DateRanges ==
    { <<Day(D1), ZeroTime>>,
      <<Day(D1), At(D2, 23, 59, 59)>>,
      <<Day(D2), At(D2, 23, 59, 59)>>,
      <<Day(D2), At(D1, 23, 59, 59)>>,
      <<At(D1, 10, 30, 0), At(D1, 23, 59, 59)>>,
      <<At(D1, 10, 30, 0), ZeroTime>> }

Strategies == {"ExactMatch", "TypeDate", "Validating"}

-----------------------------------------------------------------------------
(* Reconcile *)

\* Reconcile called directly: there is no command line
NoFlags == [start |-> 0, endGiven |-> FALSE, end |-> 0]

InitWith(files, lists, ranges, strategies) ==
    /\ runs = <<>>
    /\ flags = NoFlags
    /\ sysFile \in files
    /\ bankFiles \in lists
    /\ \E r \in ranges : startDate = r[1] /\ endDate = r[2]
    /\ givenEndDate = endDate
    /\ strategy \in strategies
    /\ pc = "validate"
    /\ systemTxs = <<>>
    /\ bankStmts = <<>>
    /\ bankStmtIndex = EmptyMap
    /\ matchedSystemTxs = {}
    /\ matchedBankStmts = {}
    /\ sysIdx = 0
    /\ result = EmptyResult
    /\ ret = "none"
    /\ pairs = {}

\* the exact strategy (the one the command line passes), every date range
Init == InitWith(SystemFiles(SystemRows), BankFileLists(BankRows), DateRanges, {"ExactMatch"})

\* every strategy, over rows that share their type and calendar date
InitStrategies ==
    InitWith(SystemFiles(SameDayRows), BankFileLists(SameDayBankRows),
             {<<Day(D1), ZeroTime>>, <<Day(D2), At(D1, 23, 59, 59)>>}, Strategies)

\* the exact strategy over bank amounts of every sign
InitSigns ==
    InitWith(SystemFiles(SignRows), BankFileLists(SignBankRows),
             {<<Day(D1), ZeroTime>>, <<Day(D2), At(D1, 23, 59, 59)>>}, {"ExactMatch"})

\* the exact strategy over files of which any may be unreadable or malformed
InitFiles ==
    InitWith(FaultySystemFiles, FaultyBankFileLists, {<<Day(D1), ZeroTime>>}, {"ExactMatch"})

\* the rows of the files given on the command line: two consecutive days
CLISystemRows ==
    << [trxID |-> "TRX041", amount |-> Dec(100000, -2), type |-> "CREDIT",
        transactionTime |-> At(D1, 10, 30, 0)],
       [trxID |-> "TRX042", amount |-> Dec(100000, -2), type |-> "CREDIT",
        transactionTime |-> At(D2, 9, 0, 0)] >>

CLIBankRows ==
    << [unique_identifier |-> "BANK-041", amount |-> Dec(100000, -2), date |-> Day(D1)],
       [unique_identifier |-> "BANK-042", amount |-> Dec(100000, -2), date |-> Day(D2)] >>

\* -start and -end (YYYY-MM-DD) as day numbers; -end may be left out
CLIFlags ==
    { [start |-> s, endGiven |-> TRUE, end |-> e] : s, e \in {D1, D2} }
    \cup { [start |-> s, endGiven |-> FALSE, end |-> 0] : s \in {D1, D2} }

\* the command line: main has parsed no flag yet
InitCLI ==
    /\ runs = <<>>
    /\ flags \in CLIFlags
    /\ sysFile \in LET f == CSVFile("transactions", transactionColumnCount, CLISystemRows)
                    IN  {f, Missing(f)}
    /\ bankFiles \in LET a == CSVFile("bca", bankStatementColumnCount, SubSeq(CLIBankRows, 1, 1))
                          b == CSVFile("bni", bankStatementColumnCount, CLIBankRows)
                      IN  {<<a>>, <<b>>, <<a, b>>, <<b, a>>, <<a, Missing(b)>>}
    /\ strategy = "ExactMatch"
    /\ startDate = ZeroTime
    /\ endDate = ZeroTime
    /\ givenEndDate = ZeroTime
    /\ pc = "flags"
    /\ systemTxs = <<>>
    /\ bankStmts = <<>>
    /\ bankStmtIndex = EmptyMap
    /\ matchedSystemTxs = {}
    /\ matchedBankStmts = {}
    /\ sysIdx = 0
    /\ result = EmptyResult
    /\ ret = "none"
    /\ pairs = {}

\* time.ParseInLocation(DEFAULT_DATE_FORMAT, ...): 00:00:00 of the day
ParseFlagDate(day) == Day(day)

\* (variant) the end date is not moved to the end of its day
FlagEndAtMidnight(f, start) ==
    IF f.endGiven THEN ParseFlagDate(f.end) ELSE start + EndOfDayOffset

\* main, lines 78-94: the end of the range
FlagEnd(f, start) ==
    IF f.endGiven
    THEN ParseFlagDate(f.end) + EndOfDayOffset
    ELSE start + EndOfDayOffset

\* main, lines 103-110: validateFileExists on every file
FilesExist == sysFile.exists /\ \A f \in DOMAIN bankFiles : bankFiles[f].exists

\* main, lines 72-126: the flags become the range of the ReconciliationInput, or
\* the process ends with log.Fatalf
ParseFlags ==
    /\ pc = "flags"
    /\ LET start == ParseFlagDate(flags.start)
           end == FlagEnd(flags, start)
       IN  IF (flags.endGiven /\ After(start, end)) \/ ~FilesExist
           THEN /\ pc' = "done"
                /\ ret' = "fatal"
                /\ UNCHANGED <<startDate, endDate, givenEndDate>>
           ELSE /\ pc' = "validate"
                /\ ret' = ret
                /\ startDate' = start
                /\ endDate' = end
                /\ givenEndDate' = end
    /\ UNCHANGED <<runs, flags, sysFile, bankFiles, strategy, systemTxs, bankStmts, bankStmtIndex,
                   matchedSystemTxs, matchedBankStmts, sysIdx, result, pairs>>


ValidateRangeUnchecked ==
    /\ pc = "validate"
    /\ endDate' = IF IsZeroTime(endDate) THEN startDate + EndOfDayOffset ELSE endDate
    /\ pc' = "parseSystem"
    /\ UNCHANGED <<runs, flags, givenEndDate, sysFile, bankFiles, strategy, startDate, systemTxs, bankStmts,
                   bankStmtIndex, matchedSystemTxs, matchedBankStmts, sysIdx, result, ret,
                   pairs>>

\* lines 35-43: default the end date, reject a start after the end
ValidateRange ==
    /\ pc = "validate"
    /\ LET end == IF IsZeroTime(endDate) THEN startDate + EndOfDayOffset ELSE endDate
       IN  /\ endDate' = end
           /\ IF After(startDate, end)
              THEN pc' = "done" /\ ret' = "error"
              ELSE pc' = "parseSystem" /\ ret' = ret
    /\ UNCHANGED <<runs, flags, givenEndDate, sysFile, bankFiles, strategy, startDate, systemTxs, bankStmts,
                   bankStmtIndex, matchedSystemTxs, matchedBankStmts, sysIdx, result, pairs>>

\* lines 46-49
ParseSystem ==
    /\ pc = "parseSystem"
    /\ IF TransactionParseCSVOK(sysFile)
       THEN systemTxs' = TransactionParseCSV(sysFile) /\ pc' = "filterSystem" /\ ret' = ret
       ELSE systemTxs' = systemTxs /\ pc' = "done" /\ ret' = "error"
    /\ UNCHANGED <<runs, flags, givenEndDate, sysFile, bankFiles, strategy, startDate, endDate, bankStmts,
                   bankStmtIndex, matchedSystemTxs, matchedBankStmts, sysIdx, result, pairs>>

\* lines 52-56
FilterSystem ==
    /\ pc = "filterSystem"
    /\ systemTxs' = filterTransactionsByDateRange(systemTxs, startDate, endDate)
    /\ pc' = "parseBank"
    /\ UNCHANGED <<runs, flags, givenEndDate, sysFile, bankFiles, strategy, startDate, endDate, bankStmts,
                   bankStmtIndex, matchedSystemTxs, matchedBankStmts, sysIdx, result, ret,
                   pairs>>

\* (variant) a failed bank parse returns the error together with the result
\* gathered so far
ParseBankPartialResult ==
    /\ pc = "parseBank"
    /\ IF ParseMultipleCSVsOK(bankFiles)
       THEN /\ bankStmts' = ParseMultipleCSVs(bankFiles)
            /\ pc' = "filterBank" /\ ret' = ret /\ result' = result
       ELSE /\ bankStmts' = bankStmts
            /\ pc' = "done" /\ ret' = "error"
            /\ result' = [EmptyResult EXCEPT
                             !.TotalSystemTransactions = Len(systemTxs),
                             !.UnmatchedSystemTransactions = systemTxs]
    /\ UNCHANGED <<runs, flags, givenEndDate, sysFile, bankFiles, strategy, startDate, endDate, systemTxs,
                   bankStmtIndex, matchedSystemTxs, matchedBankStmts, sysIdx, pairs>>

\* lines 59-62
ParseBank ==
    /\ pc = "parseBank"
    /\ IF ParseMultipleCSVsOK(bankFiles)
       THEN bankStmts' = ParseMultipleCSVs(bankFiles) /\ pc' = "filterBank" /\ ret' = ret
       ELSE bankStmts' = bankStmts /\ pc' = "done" /\ ret' = "error"
    /\ UNCHANGED <<runs, flags, givenEndDate, sysFile, bankFiles, strategy, startDate, endDate, systemTxs,
                   bankStmtIndex, matchedSystemTxs, matchedBankStmts, sysIdx, result, pairs>>

\* lines 65-69
FilterBank ==
    /\ pc = "filterBank"
    /\ bankStmts' = filterBankStatementsByDateRange(bankStmts, startDate, endDate)
    /\ pc' = "index"
    /\ UNCHANGED <<runs, flags, givenEndDate, sysFile, bankFiles, strategy, startDate, endDate, systemTxs,
                   bankStmtIndex, matchedSystemTxs, matchedBankStmts, sysIdx, result, ret,
                   pairs>>

\* lines 82-99: the result is allocated, the index built, the matched maps made
IndexBankStatements ==
    /\ pc = "index"
    /\ result' = [EmptyResult EXCEPT !.TotalSystemTransactions = Len(systemTxs),
                                     !.TotalBankStatementLines = Len(bankStmts)]
    /\ bankStmtIndex' = BuildIndex(strategy, bankStmts, Len(bankStmts))
    /\ matchedSystemTxs' = {}
    /\ matchedBankStmts' = {}
    /\ sysIdx' = 1
    /\ pc' = "match"
    /\ UNCHANGED <<runs, flags, givenEndDate, sysFile, bankFiles, strategy, startDate, endDate, systemTxs, bankStmts,
                   ret, pairs>>

\* lines 102-142: one iteration of the loop over the system transactions
MatchNext ==
    /\ pc = "match"
    /\ sysIdx <= Len(systemTxs)
    /\ LET sysTrx == systemTxs[sysIdx]
           bankIdx == FindMatch(strategy, sysTrx, bankStmts, bankStmtIndex, matchedBankStmts)
       IN  IF bankIdx # 0
           THEN /\ matchedSystemTxs' = matchedSystemTxs \cup {sysIdx}
                /\ matchedBankStmts' = matchedBankStmts \cup {bankIdx}
                /\ result' = MatchedResult(result, sysTrx, bankStmts[bankIdx])
                /\ pairs' = pairs \cup {<<sysIdx, bankIdx>>}
           ELSE /\ result' = UnmatchedResult(result, sysTrx)
                /\ UNCHANGED <<matchedSystemTxs, matchedBankStmts, pairs>>
    /\ sysIdx' = sysIdx + 1
    /\ UNCHANGED <<runs, flags, givenEndDate, sysFile, bankFiles, strategy, startDate, endDate, pc, systemTxs,
                   bankStmts, bankStmtIndex, ret>>

\* lines 145-155: the loop over the system transactions has ended
CollectUnmatchedBank ==
    /\ pc = "match"
    /\ sysIdx > Len(systemTxs)
    /\ result' = [result EXCEPT !.UnmatchedBankStatementLines =
                      CollectUnmatched(bankStmts, matchedBankStmts, Len(bankStmts))]
    /\ pc' = "totals"
    /\ UNCHANGED <<runs, flags, givenEndDate, sysFile, bankFiles, strategy, startDate, endDate, systemTxs, bankStmts,
                   bankStmtIndex, matchedSystemTxs, matchedBankStmts, sysIdx, ret, pairs>>

\* lines 157-164 and 72-74: the totals, then Reconcile returns (result, nil)
ComputeTotals ==
    /\ pc = "totals"
    /\ result' = [result EXCEPT
          !.TotalTransactionsProcessed = TotalProcessed(systemTxs, bankStmts),
          !.TotalUnmatchedTransactions = TotalUnmatched(result)]
    /\ pc' = "done"
    /\ ret' = "ok"
    /\ UNCHANGED <<runs, flags, givenEndDate, sysFile, bankFiles, strategy, startDate, endDate, systemTxs, bankStmts,
                   bankStmtIndex, matchedSystemTxs, matchedBankStmts, sysIdx, pairs>>

Next ==
    \/ ValidateRange
    \/ ParseSystem
    \/ FilterSystem
    \/ ParseBank
    \/ FilterBank
    \/ IndexBankStatements
    \/ MatchNext
    \/ CollectUnmatchedBank
    \/ ComputeTotals

Spec == Init /\ [][Next]_vars

SpecStrategies == InitStrategies /\ [][Next]_vars

SpecSigns == InitSigns /\ [][Next]_vars

SpecFiles == InitFiles /\ [][Next]_vars

\* the command line program: main, then Reconcile
NextCLI == ParseFlags \/ Next

SpecCLI == InitCLI /\ [][NextCLI]_vars

-----------------------------------------------------------------------------
(* Several calls of Reconcile on one service *)

\* a call of Reconcile before its first step, with the locals it will allocate
NewRun(input) ==
    [input            |-> input,
     endDate          |-> input.endDate,
     pc               |-> "validate",
     systemTxs        |-> <<>>,
     bankStmts        |-> <<>>,
     bankStmtIndex    |-> EmptyMap,
     matchedSystemTxs |-> {},
     matchedBankStmts |-> {},
     sysIdx           |-> 0,
     result           |-> EmptyResult,
     ret              |-> "none"]

\* one step of a call, on the call's own input and locals: the steps of
\* Reconcile and performReconciliation in the order of the code
RunStep(run) ==
    CASE run.pc = "validate" ->
            LET end == IF IsZeroTime(run.endDate)
                       THEN run.input.startDate + EndOfDayOffset
                       ELSE run.endDate
            IN  IF After(run.input.startDate, end)
                THEN [run EXCEPT !.endDate = end, !.pc = "done", !.ret = "error"]
                ELSE [run EXCEPT !.endDate = end, !.pc = "parseSystem"]
      [] run.pc = "parseSystem" ->
            IF TransactionParseCSVOK(run.input.sysFile)
            THEN [run EXCEPT !.systemTxs = TransactionParseCSV(run.input.sysFile),
                             !.pc = "filterSystem"]
            ELSE [run EXCEPT !.pc = "done", !.ret = "error"]
      [] run.pc = "filterSystem" ->
            [run EXCEPT !.systemTxs = filterTransactionsByDateRange(
                                          run.systemTxs, run.input.startDate, run.endDate),
                        !.pc = "parseBank"]
      [] run.pc = "parseBank" ->
            IF ParseMultipleCSVsOK(run.input.bankFiles)
            THEN [run EXCEPT !.bankStmts = ParseMultipleCSVs(run.input.bankFiles),
                             !.pc = "filterBank"]
            ELSE [run EXCEPT !.pc = "done", !.ret = "error"]
      [] run.pc = "filterBank" ->
            [run EXCEPT !.bankStmts = filterBankStatementsByDateRange(
                                          run.bankStmts, run.input.startDate, run.endDate),
                        !.pc = "index"]
      [] run.pc = "index" ->
            [run EXCEPT !.result = [EmptyResult EXCEPT
                                       !.TotalSystemTransactions = Len(run.systemTxs),
                                       !.TotalBankStatementLines = Len(run.bankStmts)],
                        !.bankStmtIndex = BuildIndex(run.input.strategy, run.bankStmts,
                                                     Len(run.bankStmts)),
                        !.matchedSystemTxs = {},
                        !.matchedBankStmts = {},
                        !.sysIdx = 1,
                        !.pc = "match"]
      [] run.pc = "match" /\ run.sysIdx <= Len(run.systemTxs) ->
            LET sysTrx == run.systemTxs[run.sysIdx]
                bankIdx == FindMatch(run.input.strategy, sysTrx, run.bankStmts,
                                     run.bankStmtIndex, run.matchedBankStmts)
            IN  IF bankIdx # 0
                THEN [run EXCEPT !.matchedSystemTxs = @ \cup {run.sysIdx},
                                 !.matchedBankStmts = @ \cup {bankIdx},
                                 !.result = MatchedResult(@, sysTrx, run.bankStmts[bankIdx]),
                                 !.sysIdx = @ + 1]
                ELSE [run EXCEPT !.result = UnmatchedResult(@, sysTrx),
                                 !.sysIdx = @ + 1]
      [] run.pc = "match" /\ run.sysIdx > Len(run.systemTxs) ->
            [run EXCEPT !.result = [@ EXCEPT !.UnmatchedBankStatementLines =
                                       CollectUnmatched(run.bankStmts, run.matchedBankStmts,
                                                        Len(run.bankStmts))],
                        !.pc = "totals"]
      [] run.pc = "totals" ->
            [run EXCEPT !.result = [@ EXCEPT
                                       !.TotalTransactionsProcessed =
                                           TotalProcessed(run.systemTxs, run.bankStmts),
                                       !.TotalUnmatchedTransactions = TotalUnmatched(run.result)],
                        !.pc = "done",
                        !.ret = "ok"]

\* the inputs of the concurrent calls
RunInputs ==
    LET system == CSVFile("transactions", transactionColumnCount, FileSystemRows)
        Input(rows, start, end) ==
            [sysFile   |-> system,
             bankFiles |-> <<CSVFile("bca", bankStatementColumnCount, rows)>>,
             strategy  |-> "ExactMatch",
             startDate |-> start,
             endDate   |-> end]
    IN  { Input(FileBankRows, Day(D1), ZeroTime),
          Input(<<FileBankRows[2], FileBankRows[1]>>, Day(D1), At(D1, 23, 59, 59)),
          Input(SubSeq(FileBankRows, 2, 2), Day(D1), At(D2, 23, 59, 59)),
          Input(FileBankRows, Day(D2), At(D1, 23, 59, 59)) }

\* the ids of the concurrent calls
RunIds == {1, 2}

\* two calls on different inputs, none started; no call outside them
InitRuns ==
    /\ runs \in {r \in [RunIds -> {NewRun(i) : i \in RunInputs}] :
                    \A a, b \in RunIds : a # b => r[a].input # r[b].input}
    /\ flags = NoFlags
    /\ sysFile = CSVFile("transactions", transactionColumnCount, <<>>)
    /\ bankFiles = <<>>
    /\ strategy = "ExactMatch"
    /\ startDate = ZeroTime
    /\ endDate = ZeroTime
    /\ givenEndDate = ZeroTime
    /\ pc = "idle"
    /\ systemTxs = <<>>
    /\ bankStmts = <<>>
    /\ bankStmtIndex = EmptyMap
    /\ matchedSystemTxs = {}
    /\ matchedBankStmts = {}
    /\ sysIdx = 0
    /\ result = EmptyResult
    /\ ret = "none"
    /\ pairs = {}

\* (variant) the index is a field of the service: the call that builds it
\* replaces the index every other call is working with
StepRunSharedIndex(r) ==
    /\ runs[r].pc # "done"
    /\ runs' = [q \in DOMAIN runs |->
                  IF q = r THEN RunStep(runs[r])
                  ELSE IF runs[r].pc = "index"
                       THEN [runs[q] EXCEPT !.bankStmtIndex = RunStep(runs[r]).bankStmtIndex]
                       ELSE runs[q]]
    /\ UNCHANGED <<flags, sysFile, bankFiles, strategy, startDate, endDate, givenEndDate, pc,
                   systemTxs, bankStmts, bankStmtIndex, matchedSystemTxs, matchedBankStmts,
                   sysIdx, result, ret, pairs>>

\* call r takes its next step; the service holds nothing the step writes
StepRun(r) ==
    /\ runs[r].pc # "done"
    /\ runs' = [runs EXCEPT ![r] = RunStep(runs[r])]
    /\ UNCHANGED <<flags, sysFile, bankFiles, strategy, startDate, endDate, givenEndDate, pc,
                   systemTxs, bankStmts, bankStmtIndex, matchedSystemTxs, matchedBankStmts,
                   sysIdx, result, ret, pairs>>

NextRuns == \E r \in RunIds : StepRun(r)

SpecRuns == InitRuns /\ [][NextRuns]_vars

-----------------------------------------------------------------------------
(* Vocabulary of the properties *)

\* Reconcile has returned (result, nil)
Returned == pc = "done" /\ ret = "ok"

\* the range of the run, both bounds inclusive
InRange(t) == startDate <= t /\ t <= endDate

\* the records the parsers hand to Reconcile, before any filtering
ParsedSystemTxs == TransactionParseCSV(sysFile)
ParsedBankStmts == ParseMultipleCSVs(bankFiles)

InRangeSystemCount ==
    Cardinality({i \in DOMAIN ParsedSystemTxs : InRange(ParsedSystemTxs[i].TransactionTime)})
InRangeBankCount ==
    Cardinality({j \in DOMAIN ParsedBankStmts : InRange(ParsedBankStmts[j].Date)})

\* the entries of the unmatched bank map, as <<source, position in the group>>
UnmatchedBankEntries ==
    { e \in (DOMAIN result.UnmatchedBankStatementLines) \X (1..MaxBank + 1) :
        e[2] <= Len(result.UnmatchedBankStatementLines[e[1]]) }

UnmatchedBankCount == Cardinality(UnmatchedBankEntries)

\* positions (after filtering) that the pairing pass has paired
PairedSys == {p[1] : p \in pairs}
PairedBank == {p[2] : p \in pairs}

\* how often v occurs in the sequence s
Occurrences(s, v) == Cardinality({i \in DOMAIN s : s[i] = v})

\* the group of a source in the unmatched bank map; empty when the source has no key
Group(source) ==
    IF source \in DOMAIN result.UnmatchedBankStatementLines
    THEN result.UnmatchedBankStatementLines[source]
    ELSE <<>>

BankNames == {"bca", "bni"}

\* the direction of a bank line, read off the sign of its amount
Direction(bankStmt) == IF bankStmt.Amount.value < 0 THEN "DEBIT" ELSE "CREDIT"

\* the magnitudes are the same number, whatever their exponents
SameAmount(a, b) == a.value * Pow10(a.exp + 2) = b.value * Pow10(b.exp + 2)

Magnitude(bankStmt) ==
    Dec(IF bankStmt.Amount.value < 0 THEN 0 - bankStmt.Amount.value ELSE bankStmt.Amount.value,
        bankStmt.Amount.exp)

\* direction, magnitude and calendar date of the two records agree
Agree(sysTrx, bankStmt) ==
    /\ sysTrx.Type = Direction(bankStmt)
    /\ SameAmount(sysTrx.Amount, Magnitude(bankStmt))
    /\ sysTrx.TransactionTime \div 86400 = bankStmt.Date \div 86400

\* two system transactions, or two bank lines, of one direction, magnitude and date
SysAlike(a, b) ==
    /\ a.Type = b.Type
    /\ SameAmount(a.Amount, b.Amount)
    /\ a.TransactionTime \div 86400 = b.TransactionTime \div 86400
BankAlike(a, b) ==
    /\ Direction(a) = Direction(b)
    /\ SameAmount(Magnitude(a), Magnitude(b))
    /\ a.Date \div 86400 = b.Date \div 86400

-----------------------------------------------------------------------------
(* Properties *)

\* C1 (Conservation): in every returned result, twice the matched pairs plus the
\* unmatched system transactions plus the unmatched bank lines of all sources
\* equals the number of in-range system transactions plus in-range bank lines.
Conservation ==
    Returned =>
        2 * result.TotalMatchedTransactions
            + Len(result.UnmatchedSystemTransactions)
            + UnmatchedBankCount
        = InRangeSystemCount + InRangeBankCount

\* a run with a matched pair, an unmatched system transaction and an unmatched bank line
ConservationWitness ==
    /\ Returned
    /\ result.TotalMatchedTransactions >= 1
    /\ Len(result.UnmatchedSystemTransactions) >= 1
    /\ UnmatchedBankCount >= 1

\* C2 (Partition): in every returned result each in-range system transaction is
\* either paired or listed once in UnmatchedSystemTransactions, and each in-range
\* bank line is either paired or listed once in the group of its own source and in
\* no other group: every record value is listed exactly as often as it occurs
\* at unpaired positions.
Partition ==
    Returned =>
        /\ \A v \in Range(systemTxs) \cup Range(result.UnmatchedSystemTransactions) :
              Occurrences(result.UnmatchedSystemTransactions, v)
                = Cardinality({i \in DOMAIN systemTxs : systemTxs[i] = v /\ i \notin PairedSys})
        /\ DOMAIN result.UnmatchedBankStatementLines \subseteq BankNames
        /\ \A n \in BankNames :
              \A v \in Range(bankStmts) \cup Range(Group(n)) :
                 Occurrences(Group(n), v)
                   = Cardinality({j \in DOMAIN bankStmts :
                                    /\ bankStmts[j] = v
                                    /\ j \notin PairedBank
                                    /\ bankStmts[j].BankName = n})

\* a run where one of two equal bank lines is paired and the other is listed
PartitionWitness ==
    /\ Returned
    /\ \E j \in PairedBank : \E k \in DOMAIN bankStmts \ PairedBank :
          bankStmts[j] = bankStmts[k]
    /\ Len(result.UnmatchedSystemTransactions) >= 1

\* C3 (First-match-wins): a system transaction is paired with the lowest-position
\* bank line of its key that IsMatch admits and that no earlier system transaction
\* has consumed (every admissible candidate before the chosen one belongs to an
\* earlier system transaction); one system transaction against two identical
\* bank lines takes the first, and the second is listed as unmatched.
FirstMatchWins ==
    /\ \A p \in pairs : \A b \in 1..(p[2] - 1) :
          (/\ BankKey(strategy, bankStmts[b]) = SysKey(strategy, systemTxs[p[1]])
           /\ IsMatch(strategy, systemTxs[p[1]], bankStmts[b]))
          => \E q \in pairs : q[2] = b /\ q[1] < p[1]
    /\ (/\ Returned
        /\ Len(systemTxs) = 1
        /\ Len(bankStmts) = 2
        /\ BankKey(strategy, bankStmts[1]) = SysKey(strategy, systemTxs[1])
        /\ BankKey(strategy, bankStmts[2]) = SysKey(strategy, systemTxs[1])
        /\ IsMatch(strategy, systemTxs[1], bankStmts[1]))
       => /\ pairs = {<<1, 1>>}
          /\ Group(bankStmts[2].BankName) = <<bankStmts[2]>>

\* a run where the chosen bank line has a later candidate that stays unmatched,
\* and a candidate before it was refused by IsMatch
FirstMatchWinsWitness ==
    /\ Returned
    /\ \E p \in pairs :
          /\ \E b \in DOMAIN bankStmts :
                /\ b > p[2]
                /\ b \notin PairedBank
                /\ BankKey(strategy, bankStmts[b]) = SysKey(strategy, systemTxs[p[1]])
                /\ IsMatch(strategy, systemTxs[p[1]], bankStmts[b])
          /\ \E b \in 1..(p[2] - 1) :
                /\ BankKey(strategy, bankStmts[b]) = SysKey(strategy, systemTxs[p[1]])
                /\ ~IsMatch(strategy, systemTxs[p[1]], bankStmts[b])

\* C4 (One-to-one): at every point of the pairing pass and in the result, no bank
\* line is paired with two system transactions and no system transaction with two
\* bank lines, for every strategy.
OneToOne ==
    \A p \in pairs : \A q \in pairs :
        (p[1] = q[1] \/ p[2] = q[2]) => p = q

\* two system transactions of one key paired with two bank lines of that key
OneToOneWitness ==
    \E p \in pairs : \E q \in pairs :
        /\ p # q
        /\ SysKey(strategy, systemTxs[p[1]]) = SysKey(strategy, systemTxs[q[1]])
        /\ BankKey(strategy, bankStmts[p[2]]) = BankKey(strategy, bankStmts[q[2]])

\* C5 (Exact-match correctness): under ExactMatch, in a returned result, an in-range
\* system transaction and an in-range bank line of the same direction, magnitude
\* and calendar date are paired with each other when no other in-range record is
\* like either of them, whatever the time of day of the system transaction.
ExactMatchCorrectness ==
    (Returned /\ strategy = "ExactMatch") =>
        \A i \in DOMAIN systemTxs : \A j \in DOMAIN bankStmts :
            (/\ Agree(systemTxs[i], bankStmts[j])
             /\ \A k \in DOMAIN systemTxs \ {i} : ~SysAlike(systemTxs[k], systemTxs[i])
             /\ \A k \in DOMAIN bankStmts \ {j} : ~BankAlike(bankStmts[k], bankStmts[j]))
            => <<i, j>> \in pairs

\* a run that pairs a DEBIT with a negative bank amount, and a system transaction
\* late in the day, written "1000", with a bank line written "1000.00"
ExactMatchCorrectnessWitness ==
    /\ Returned
    /\ strategy = "ExactMatch"
    /\ \E p \in pairs :
          /\ systemTxs[p[1]].Type = "DEBIT"
          /\ bankStmts[p[2]].Amount.value < 0
    /\ \E p \in pairs :
          /\ systemTxs[p[1]].Amount.exp # bankStmts[p[2]].Amount.exp
          /\ systemTxs[p[1]].TransactionTime % 86400 # 0

\* C6 (Exact-match soundness): under ExactMatch every pair, at every point of the
\* pairing pass, has equal direction, equal magnitude and equal calendar date;
\* the same amount and type on two calendar dates are never paired.
ExactMatchSoundness ==
    strategy = "ExactMatch" =>
        \A p \in pairs : Agree(systemTxs[p[1]], bankStmts[p[2]])

\* a run where a system transaction and a bank line of the same type and amount
\* on two calendar dates both stay unmatched
ExactMatchSoundnessWitness ==
    /\ Returned
    /\ strategy = "ExactMatch"
    /\ \E i \in DOMAIN systemTxs \ PairedSys : \E j \in DOMAIN bankStmts \ PairedBank :
          /\ systemTxs[i].Type = Direction(bankStmts[j])
          /\ SameAmount(systemTxs[i].Amount, Magnitude(bankStmts[j]))
          /\ systemTxs[i].TransactionTime \div 86400 # bankStmts[j].Date \div 86400

\* C7 (Zero discrepancy): under ExactMatch TotalDiscrepancies is zero at every
\* point of the run and in every result, and every pair has no amount difference.
ZeroDiscrepancy ==
    strategy = "ExactMatch" =>
        /\ result.TotalDiscrepancies.value = 0
        /\ \A p \in pairs :
              SameAmount(systemTxs[p[1]].Amount, Magnitude(bankStmts[p[2]]))

\* a result with two matched pairs and unmatched records of both sides
ZeroDiscrepancyWitness ==
    /\ Returned
    /\ strategy = "ExactMatch"
    /\ result.TotalMatchedTransactions = 2
    /\ result.TotalUnmatchedTransactions >= 1

\* C8 (Range validation): when StartDate is after a set EndDate, Reconcile goes
\* from its first step straight to returning an error: nothing is parsed,
\* filtered, indexed or paired, and no result is built.
RangeValidation ==
    (After(startDate, endDate) /\ ~IsZeroTime(endDate)) =>
        /\ pc \in {"validate", "done"}
        /\ pc = "done" => ret = "error"
        /\ systemTxs = <<>>
        /\ bankStmts = <<>>
        /\ bankStmtIndex = EmptyMap
        /\ matchedSystemTxs = {} /\ matchedBankStmts = {} /\ pairs = {}
        /\ result = EmptyResult

\* a rejected run whose files had rows to process
RangeValidationWitness ==
    /\ After(startDate, endDate)
    /\ ~IsZeroTime(endDate)
    /\ pc = "done"
    /\ ret = "error"
    /\ Len(sysFile.rows) >= 1
    /\ bankFiles # <<>>

\* Reconcile is past the filter of the system transactions / of the bank lines
SystemFiltered == pc \in {"parseBank", "filterBank", "index", "match", "totals"} \/ Returned
BankFiltered == pc \in {"index", "match", "totals"} \/ Returned

\* C9 (Range boundary inclusivity): after filtering, the system transactions are
\* exactly the parsed ones with StartDate <= timestamp <= EndDate and the bank
\* lines exactly the parsed ones with StartDate <= date <= EndDate, in order;
\* with StartDate at 00:00:00 and EndDate at 23:59:59, the bank lines of the start
\* day and of the end day are kept.
RangeInclusive ==
    /\ SystemFiltered =>
          systemTxs = SelectSeq(ParsedSystemTxs, LAMBDA t : InRange(t.TransactionTime))
    /\ BankFiltered =>
          bankStmts = SelectSeq(ParsedBankStmts, LAMBDA b : InRange(b.Date))
    /\ (BankFiltered /\ startDate % 86400 = 0 /\ endDate % 86400 = 86399) =>
          \A j \in DOMAIN ParsedBankStmts :
             ParsedBankStmts[j].Date \div 86400 \in {startDate \div 86400, endDate \div 86400}
                => ParsedBankStmts[j] \in Range(bankStmts)

\* both filters have run; a transaction exactly at StartDate and one exactly at
\* EndDate are kept, and so are a bank line of the start day and one of the end day
RangeInclusiveWitness ==
    /\ BankFiltered
    /\ startDate \div 86400 # endDate \div 86400
    /\ \E i \in DOMAIN systemTxs : systemTxs[i].TransactionTime = startDate
    /\ \E i \in DOMAIN systemTxs : systemTxs[i].TransactionTime = endDate
    /\ \E j \in DOMAIN bankStmts : bankStmts[j].Date \div 86400 = startDate \div 86400
    /\ \E j \in DOMAIN bankStmts : bankStmts[j].Date \div 86400 = endDate \div 86400

\* C10 (Out-of-range records): in a returned result every record the pairing pass
\* saw, hence every paired record, and every listed unmatched record is in range;
\* TotalTransactionsProcessed counts the in-range records only, and the matched
\* and unmatched totals stay within the in-range counts.
OutOfRangeExcluded ==
    Returned =>
        /\ \A i \in DOMAIN systemTxs : InRange(systemTxs[i].TransactionTime)
        /\ \A j \in DOMAIN bankStmts : InRange(bankStmts[j].Date)
        /\ \A i \in DOMAIN result.UnmatchedSystemTransactions :
              InRange(result.UnmatchedSystemTransactions[i].TransactionTime)
        /\ \A e \in UnmatchedBankEntries :
              InRange(result.UnmatchedBankStatementLines[e[1]][e[2]].Date)
        /\ result.TotalTransactionsProcessed = InRangeSystemCount + InRangeBankCount
        /\ result.TotalMatchedTransactions <= InRangeSystemCount
        /\ result.TotalMatchedTransactions <= InRangeBankCount
        /\ result.TotalUnmatchedTransactions + 2 * result.TotalMatchedTransactions
              <= InRangeSystemCount + InRangeBankCount

\* a result with a pair, from files that also held a system transaction and a
\* bank line outside the range
OutOfRangeExcludedWitness ==
    /\ Returned
    /\ pairs # {}
    /\ \E i \in DOMAIN ParsedSystemTxs : ~InRange(ParsedSystemTxs[i].TransactionTime)
    /\ \E j \in DOMAIN ParsedBankStmts : ~InRange(ParsedBankStmts[j].Date)

\* C11 (Default end date): when EndDate was passed as the zero value, Reconcile
\* works with 23:59:59 of StartDate's calendar day as EndDate, whatever the time
\* of day of StartDate, and every record that survives the filters lies on
\* StartDate's calendar day (no record of the next day is processed).
DefaultEndDate ==
    (IsZeroTime(givenEndDate) /\ pc # "validate") =>
        /\ endDate = Day(FormatDate(startDate)) + EndOfDayOffset
        /\ SystemFiltered =>
              \A i \in DOMAIN systemTxs :
                  FormatDate(systemTxs[i].TransactionTime) = FormatDate(startDate)
        /\ BankFiltered =>
              \A j \in DOMAIN bankStmts :
                  FormatDate(bankStmts[j].Date) = FormatDate(startDate)

\* C12 (No partial result): Reconcile returns exactly one of a complete result
\* with no error or an error with no result. A returned result comes from a valid
\* range and files that all parsed, its pairing pass has run to the end, and its
\* counts and unmatched collections cover every in-range record; with an error
\* the result was never allocated and nothing was paired.
NoPartialResult ==
    /\ ret \in {"none", "ok", "error"}
    /\ (pc = "done") <=> (ret # "none")
    /\ ret = "error" =>
          /\ result = EmptyResult
          /\ pairs = {} /\ matchedSystemTxs = {} /\ matchedBankStmts = {}
          /\ \/ After(startDate, endDate)
             \/ ~TransactionParseCSVOK(sysFile)
             \/ ~ParseMultipleCSVsOK(bankFiles)
    /\ ret = "ok" =>
          /\ ~After(startDate, endDate)
          /\ TransactionParseCSVOK(sysFile)
          /\ ParseMultipleCSVsOK(bankFiles)
          /\ sysIdx = Len(systemTxs) + 1
          /\ result.TotalSystemTransactions = InRangeSystemCount
          /\ result.TotalBankStatementLines = InRangeBankCount
          /\ result.TotalTransactionsProcessed = InRangeSystemCount + InRangeBankCount
          /\ Len(result.UnmatchedSystemTransactions) + Cardinality(PairedSys)
                = InRangeSystemCount
          /\ UnmatchedBankCount + Cardinality(PairedBank) = InRangeBankCount
          /\ result.TotalMatchedTransactions = Cardinality(pairs)

\* an error return after the system file had parsed and in-range system
\* transactions were at hand: a bank file failed to parse
NoPartialResultWitness ==
    /\ pc = "done"
    /\ ret = "error"
    /\ systemTxs # <<>>
    /\ ~After(startDate, endDate)
    /\ ~ParseMultipleCSVsOK(bankFiles)

\* C13 (Processed total): in a returned result TotalTransactionsProcessed is the
\* number of in-range system transactions plus the number of in-range bank
\* lines (the sum of the two sides, which is also the sum of the two side totals
\* of the result).
ProcessedIsSum ==
    Returned =>
        /\ result.TotalTransactionsProcessed = InRangeSystemCount + InRangeBankCount
        /\ result.TotalTransactionsProcessed
              = result.TotalSystemTransactions + result.TotalBankStatementLines

\* a result over two in-range system transactions and two in-range bank lines
\* taken from files that also held records outside the range: sum and maximum differ
ProcessedIsSumWitness ==
    /\ Returned
    /\ InRangeSystemCount = 2
    /\ InRangeBankCount >= 2
    /\ result.TotalTransactionsProcessed = 2 + InRangeBankCount
    /\ Len(ParsedBankStmts) > InRangeBankCount

\* C14 (Unmatched total): in every returned result TotalUnmatchedTransactions is
\* the length of UnmatchedSystemTransactions plus the sum, over all sources, of
\* the length of the source's group in UnmatchedBankStatementLines.
UnmatchedIsSum ==
    Returned =>
        /\ DOMAIN result.UnmatchedBankStatementLines \subseteq BankNames
        /\ result.TotalUnmatchedTransactions
              = Len(result.UnmatchedSystemTransactions)
                  + Len(Group("bca")) + Len(Group("bni"))

\* a result with an unmatched system transaction, a matched pair and a source
\* whose group holds two lines, so that lines and sources count differently
UnmatchedIsSumWitness ==
    /\ Returned
    /\ pairs # {}
    /\ Len(result.UnmatchedSystemTransactions) = 1
    /\ \E n \in BankNames : Len(Group(n)) = 2
    /\ result.TotalUnmatchedTransactions = 3

\* the pairing pass is under way or over (the matched maps and the counter exist)
Pairing == pc \in {"match", "totals"} \/ Returned

\* C15 (Matched total counts pairs): after every step of the pairing pass and
\* in the returned result, TotalMatchedTransactions equals the number of
\* consumed bank lines, equals the number of matched system transactions and
\* equals the number of pairs formed.
MatchedCountsPairs ==
    Pairing =>
        /\ result.TotalMatchedTransactions = Cardinality(matchedBankStmts)
        /\ result.TotalMatchedTransactions = Cardinality(matchedSystemTxs)
        /\ result.TotalMatchedTransactions = Cardinality(pairs)
        /\ matchedSystemTxs = PairedSys
        /\ matchedBankStmts = PairedBank

\* a returned result of two pairs: four records matched, counted as two
MatchedCountsPairsWitness ==
    /\ Returned
    /\ Cardinality(pairs) = 2
    /\ result.TotalMatchedTransactions = 2
    /\ result.TotalSystemTransactions = 2
    /\ UnmatchedBankCount = 1

\* the positions of the in-range bank lines of a source that were never paired
UnpairedOf(source) ==
    {j \in DOMAIN bankStmts : j \notin PairedBank /\ bankStmts[j].BankName = source}

\* g lists the lines at the positions P of the in-range bank lines, by ascending position
ListsInOrder(g, P) ==
    /\ Len(g) = Cardinality(P)
    /\ \E f \in [1..Len(g) -> P] :
          /\ \A a, b \in 1..Len(g) : a < b => f[a] < f[b]
          /\ \A a \in 1..Len(g) : g[a] = bankStmts[f[a]]

\* C16 (Source grouping): in a returned result the keys of
\* UnmatchedBankStatementLines are source names, every key has a non-empty
\* group, every line of a group carries the group's key as its source, and the
\* group of each source lists exactly the unpaired in-range lines of that
\* source in the order they were supplied; so lines of two sources are in two
\* groups and no line is under a key other than its own.
SourceGrouping ==
    Returned =>
        /\ DOMAIN result.UnmatchedBankStatementLines \subseteq BankNames
        /\ \A n \in DOMAIN result.UnmatchedBankStatementLines : Group(n) # <<>>
        /\ \A e \in UnmatchedBankEntries :
              result.UnmatchedBankStatementLines[e[1]][e[2]].BankName = e[1]
        /\ \A n \in BankNames : ListsInOrder(Group(n), UnpairedOf(n))

\* a result with two groups, one of them holding two different lines
SourceGroupingWitness ==
    /\ Returned
    /\ DOMAIN result.UnmatchedBankStatementLines = BankNames
    /\ \E n \in BankNames : Len(Group(n)) = 2 /\ Group(n)[1] # Group(n)[2]

\* the positions of the in-range system transactions the pass has visited and
\* left unpaired
UnpairedVisited == {i \in DOMAIN systemTxs : i < sysIdx /\ i \notin PairedSys}

\* C17 (Unmatched system transactions): during the pairing pass and in the
\* returned result, UnmatchedSystemTransactions lists exactly the visited
\* in-range system transactions that were not paired, in the order they were
\* supplied; and each of them had no admissible candidate: every bank line with
\* its key that the strategy accepts was consumed by an earlier system transaction.
UnmatchedSystemInOrder ==
    Pairing =>
        LET g == result.UnmatchedSystemTransactions
        IN  /\ Len(g) = Cardinality(UnpairedVisited)
            /\ \E f \in [1..Len(g) -> UnpairedVisited] :
                  /\ \A a, b \in 1..Len(g) : a < b => f[a] < f[b]
                  /\ \A a \in 1..Len(g) : g[a] = systemTxs[f[a]]
            /\ \A i \in UnpairedVisited : \A j \in DOMAIN bankStmts :
                  (/\ BankKey(strategy, bankStmts[j]) = SysKey(strategy, systemTxs[i])
                   /\ IsMatch(strategy, systemTxs[i], bankStmts[j]))
                      => \E h \in 1..(i - 1) : <<h, j>> \in pairs
            /\ Returned => sysIdx = Len(systemTxs) + 1

\* a returned result listing two different unmatched system transactions while
\* bank lines were at hand
UnmatchedSystemInOrderWitness ==
    /\ Returned
    /\ bankStmts # <<>>
    /\ Len(result.UnmatchedSystemTransactions) = 2
    /\ result.UnmatchedSystemTransactions[1] # result.UnmatchedSystemTransactions[2]

\* an amount as a whole number of hundredths (the amounts have at most two decimals)
Hundredths(d) == Rescale(d, -2).value

\* |system amount - |bank amount|| of a pair <<system position, bank position>>
PairDifference(p) ==
    LET sys == Hundredths(systemTxs[p[1]].Amount)
        bank == Hundredths(bankStmts[p[2]].Amount)
        bankAbs == IF bank < 0 THEN -bank ELSE bank
    IN  IF sys >= bankAbs THEN sys - bankAbs ELSE bankAbs - sys

RECURSIVE SumOfDifferences(_)
SumOfDifferences(ps) ==
    IF ps = {} THEN 0
    ELSE LET p == CHOOSE x \in ps : TRUE
         IN  PairDifference(p) + SumOfDifferences(ps \ {p})

\* C18 (Discrepancy total): under every strategy, also one whose key ignores the
\* amount, TotalDiscrepancies is, after every step of the pairing pass and in
\* the returned result, the sum over the matched pairs of the absolute difference
\* between the system amount and the absolute bank amount; unmatched records
\* contribute nothing.
DiscrepancyIsSumOverPairs ==
    Pairing =>
        /\ result.TotalDiscrepancies.exp >= -2
        /\ Hundredths(result.TotalDiscrepancies) = SumOfDifferences(pairs)

\* a returned result of two pairs that both differ in amount, next to an
\* unmatched bank line
DiscrepancyIsSumOverPairsWitness ==
    /\ Returned
    /\ Cardinality(pairs) = 2
    /\ \A p \in pairs : PairDifference(p) > 0
    /\ UnmatchedBankCount = 1
    /\ Hundredths(result.TotalDiscrepancies) > 0

\* C19 (Bank direction is derived): every line the bank parser produces, from
\* any row of any supplied file, carries the row's amount and has direction
\* DEBIT if and only if that amount is strictly negative and CREDIT otherwise
\* (zero is CREDIT); the same holds of every line Reconcile works with; and the
\* magnitude used for matching is the absolute value: a line is paired with a
\* system transaction of the line's direction whose amount equals the absolute
\* value of the line's amount.
DirectionFromSign ==
    /\ \A f \in 1..Len(bankFiles) : \A i \in 1..Len(bankFiles[f].rows) :
          LET line == BankParseCSV(bankFiles[f])[i]
          IN  /\ line.Amount = bankFiles[f].rows[i].amount
              /\ line.Type = TransactionTypeDebit <=> line.Amount.value < 0
              /\ line.Type = TransactionTypeCredit <=> line.Amount.value >= 0
    /\ \A j \in DOMAIN bankStmts : bankStmts[j].Type = Direction(bankStmts[j])
    /\ \A p \in pairs :
          LET bank == Hundredths(bankStmts[p[2]].Amount)
          IN  /\ systemTxs[p[1]].Type = Direction(bankStmts[p[2]])
              /\ Hundredths(systemTxs[p[1]].Amount) = IF bank < 0 THEN -bank ELSE bank

\* a returned result in which a line of zero amount was paired as a CREDIT and
\* a line of negative amount was paired as a DEBIT of its absolute value
DirectionFromSignWitness ==
    /\ Returned
    /\ \E p \in pairs :
          /\ bankStmts[p[2]].Amount.value = 0
          /\ bankStmts[p[2]].Type = TransactionTypeCredit
    /\ \E p \in pairs :
          /\ bankStmts[p[2]].Amount.value < 0
          /\ bankStmts[p[2]].Type = TransactionTypeDebit
          /\ systemTxs[p[1]].Amount.value > 0

\* the records with every id replaced by one and the same id
SystemWithoutIds(txs) == [i \in DOMAIN txs |-> [txs[i] EXCEPT !.TrxID = "ID"]]
BankWithoutIds(stmts) == [j \in DOMAIN stmts |-> [stmts[j] EXCEPT !.UniqueIdentifier = "ID"]]

\* the pairs performReconciliation forms from system transaction i on, given
\* the index and the bank lines consumed so far
RECURSIVE PairsFrom(_, _, _, _, _, _)
PairsFrom(st, txs, stmts, index, i, consumed) ==
    IF i > Len(txs) THEN {}
    ELSE LET bankIdx == FindMatch(st, txs[i], stmts, index, consumed)
         IN  IF bankIdx # 0
             THEN {<<i, bankIdx>>}
                      \cup PairsFrom(st, txs, stmts, index, i + 1, consumed \cup {bankIdx})
             ELSE PairsFrom(st, txs, stmts, index, i + 1, consumed)

\* the pairs of a whole pairing pass over the given records
PairsOf(st, txs, stmts) ==
    PairsFrom(st, txs, stmts, BuildIndex(st, stmts, Len(stmts)), 1, {})

\* C20 (The exact key ignores id and time of day): the exact strategy gives the
\* same key to any two records of one direction, magnitude and calendar date,
\* whatever their ids and times of day; and the records paired in a returned
\* result (hence also the unmatched ones) are the same, position for position,
\* as those of a pass over the same records with all ids changed.
KeyIgnoresId ==
    /\ \A a, b \in DOMAIN systemTxs :
          SysAlike(systemTxs[a], systemTxs[b])
              => SysKey("ExactMatch", systemTxs[a]) = SysKey("ExactMatch", systemTxs[b])
    /\ \A a, b \in DOMAIN bankStmts :
          BankAlike(bankStmts[a], bankStmts[b])
              => BankKey("ExactMatch", bankStmts[a]) = BankKey("ExactMatch", bankStmts[b])
    /\ \A a \in DOMAIN systemTxs : \A b \in DOMAIN bankStmts :
          Agree(systemTxs[a], bankStmts[b])
              => SysKey("ExactMatch", systemTxs[a]) = BankKey("ExactMatch", bankStmts[b])
    /\ Returned =>
          pairs = PairsOf(strategy, SystemWithoutIds(systemTxs), BankWithoutIds(bankStmts))

\* a returned result with a pair, over two system transactions of one
\* direction, magnitude and date that differ in id and in time of day
KeyIgnoresIdWitness ==
    /\ Returned
    /\ pairs # {}
    /\ Len(systemTxs) = 2
    /\ SysAlike(systemTxs[1], systemTxs[2])
    /\ systemTxs[1].TrxID # systemTxs[2].TrxID
    /\ systemTxs[1].TransactionTime # systemTxs[2].TransactionTime
    /\ \A p \in pairs : systemTxs[p[1]].TrxID # bankStmts[p[2]].UniqueIdentifier

\* a file that cannot be read: it is missing, its extension is not CSV, or its
\* records do not all have the same number of fields
CannotBeRead(file) ==
    \/ ~file.exists
    \/ file.ext \notin {".csv", ".CSV"}
    \/ \E i \in DOMAIN file.rows : file.rows[i].cols # file.header

\* a system transaction file that cannot be read or parsed: a row has an
\* invalid amount or an unsupported date, or lacks a column
SystemFileUnparsable(file) ==
    \/ CannotBeRead(file)
    \/ \E i \in DOMAIN file.rows :
          \/ "amount" \in file.rows[i].invalid
          \/ "transactionTime" \in file.rows[i].invalid
          \/ file.rows[i].cols < 4

\* a bank statement file that cannot be read or parsed: a row has an invalid
\* amount or an unsupported date, or a number of columns other than 3
BankFileUnparsable(file) ==
    \/ CannotBeRead(file)
    \/ \E i \in DOMAIN file.rows :
          \/ "amount" \in file.rows[i].invalid
          \/ "date" \in file.rows[i].invalid
          \/ file.rows[i].cols # 3

SomeFileUnparsable ==
    \/ SystemFileUnparsable(sysFile)
    \/ \E f \in DOMAIN bankFiles : BankFileUnparsable(bankFiles[f])

ColumnCountExact ==
    /\ (\E i \in DOMAIN sysFile.rows : sysFile.rows[i].cols # 4)
          => /\ pc \in {"validate", "parseSystem", "done"}
             /\ ret # "ok"
    /\ (\E f \in DOMAIN bankFiles : \E i \in DOMAIN bankFiles[f].rows :
            bankFiles[f].rows[i].cols # 3)
          => /\ pc \notin {"filterBank", "index", "match", "totals"}
             /\ ret # "ok"

\* a file that is empty or holds a header row only
NoDataRows(file) == file.header = 0 \/ file.rows = <<>>

\* C30 (File without data rows): a file that is empty or has only a header row
\* is rejected by the system parser and by the bank parser, so a run in which
\* any one input file has no data rows ends in an error with no result; the
\* file is not taken as contributing zero records.
NoDataRowsIsAnError ==
    /\ \A f \in {sysFile} \cup Range(bankFiles) :
          NoDataRows(f) => ~TransactionParseCSVOK(f) /\ ~BankParseCSVOK(f)
    /\ (NoDataRows(sysFile) \/ \E f \in DOMAIN bankFiles : NoDataRows(bankFiles[f]))
          => /\ ret # "ok"
             /\ pc = "done" => ret = "error"
             /\ pc \notin {"filterBank", "index", "match", "totals"}
             /\ result = EmptyResult
             /\ pairs = {}

\* a run that ended in an error because the second bank file holds only its
\* header, although the system file and the first bank file had data rows
NoDataRowsIsAnErrorWitness ==
    /\ pc = "done"
    /\ ret = "error"
    /\ TransactionParseCSVOK(sysFile)
    /\ Len(bankFiles) = 2
    /\ BankParseCSVOK(bankFiles[1])
    /\ bankFiles[2].exists
    /\ bankFiles[2].ext = ".csv"
    /\ bankFiles[2].header = 3
    /\ bankFiles[2].rows = <<>>

\* C24 (Maximality of the greedy pairing): under every strategy, a returned
\* result has no unmatched system transaction and unmatched bank line that
\* BuildKey gives the same key and IsMatch accepts; the same holds of the
\* transactions and lines listed as unmatched in the result.
GreedyMaximal ==
    Returned =>
        /\ \A s \in DOMAIN systemTxs : \A b \in DOMAIN bankStmts :
              (s \notin PairedSys /\ b \notin PairedBank)
                  => ~(/\ SysKey(strategy, systemTxs[s]) = BankKey(strategy, bankStmts[b])
                       /\ IsMatch(strategy, systemTxs[s], bankStmts[b]))
        /\ \A i \in DOMAIN result.UnmatchedSystemTransactions : \A e \in UnmatchedBankEntries :
              LET sysTrx == result.UnmatchedSystemTransactions[i]
                  bankStmt == result.UnmatchedBankStatementLines[e[1]][e[2]]
              IN  ~(/\ SysKey(strategy, sysTrx) = BankKey(strategy, bankStmt)
                    /\ IsMatch(strategy, sysTrx, bankStmt))

\* a returned result with an unmatched system transaction and an unmatched bank
\* line of one key that IsMatch refuses, next to a pair taken from the same
\* bucket behind a refused candidate
GreedyMaximalWitness ==
    /\ Returned
    /\ \E s \in DOMAIN systemTxs : \E b \in DOMAIN bankStmts :
          /\ s \notin PairedSys
          /\ b \notin PairedBank
          /\ SysKey(strategy, systemTxs[s]) = BankKey(strategy, bankStmts[b])
          /\ ~IsMatch(strategy, systemTxs[s], bankStmts[b])
    /\ \E p \in pairs : \E b \in 1..(p[2] - 1) :
          /\ SysKey(strategy, systemTxs[p[1]]) = BankKey(strategy, bankStmts[b])
          /\ ~IsMatch(strategy, systemTxs[p[1]], bankStmts[b])

\* the rank of system transaction i among the in-range system transactions of
\* its exact key, and of bank line j among the in-range bank lines of its exact key
SysRank(i) ==
    Cardinality({h \in 1..i :
        SysKey("ExactMatch", systemTxs[h]) = SysKey("ExactMatch", systemTxs[i])})
BankRank(j) ==
    Cardinality({h \in 1..j :
        BankKey("ExactMatch", bankStmts[h]) = BankKey("ExactMatch", bankStmts[j])})

\* the in-range records of an exact key
SysOfKey(k) == {i \in DOMAIN systemTxs : SysKey("ExactMatch", systemTxs[i]) = k}
BankOfKey(k) == {j \in DOMAIN bankStmts : BankKey("ExactMatch", bankStmts[j]) = k}

\* C25 (Rank-preserving pairing): under the exact strategy, in a returned result
\* the i-th in-range system transaction of a key is paired with the i-th in-range
\* bank line of that key when there is one and is unmatched otherwise; the
\* number of pairs of a key is the smaller of the two counts, and of two system
\* transactions of one key the earlier is never the one left without a line.
RankPreserving ==
    (Returned /\ strategy = "ExactMatch") =>
        /\ \A i \in DOMAIN systemTxs :
              LET k == SysKey("ExactMatch", systemTxs[i])
                  same == {j \in BankOfKey(k) : BankRank(j) = SysRank(i)}
              IN  IF same # {}
                  THEN \A j \in same : <<i, j>> \in pairs
                  ELSE i \notin PairedSys
        /\ \A i \in DOMAIN systemTxs :
              LET k == SysKey("ExactMatch", systemTxs[i])
              IN  Cardinality({p \in pairs : p[1] \in SysOfKey(k)})
                      = MinInt(Cardinality(SysOfKey(k)), Cardinality(BankOfKey(k)))
        /\ \A a, b \in DOMAIN systemTxs :
              (/\ a < b
               /\ SysKey("ExactMatch", systemTxs[a]) = SysKey("ExactMatch", systemTxs[b])
               /\ b \in PairedSys)
                  => a \in PairedSys
        /\ \A p, q \in pairs :
              (/\ p[1] < q[1]
               /\ SysKey("ExactMatch", systemTxs[p[1]]) = SysKey("ExactMatch", systemTxs[q[1]]))
                  => p[2] < q[2]

\* a returned result of the exact strategy with two system transactions of one
\* key and two bank lines of that key apart from each other: first with first,
\* second with second
RankPreservingWitness ==
    /\ Returned
    /\ strategy = "ExactMatch"
    /\ Len(systemTxs) = 2
    /\ SysKey("ExactMatch", systemTxs[1]) = SysKey("ExactMatch", systemTxs[2])
    /\ Len(bankStmts) = 3
    /\ BankKey("ExactMatch", bankStmts[2]) # SysKey("ExactMatch", systemTxs[1])
    /\ pairs = {<<1, 1>>, <<2, 3>>}

\* C26 (No empty group): once the unmatched bank lines are collected, and in the
\* returned result, UnmatchedBankStatementLines holds no empty group; a source
\* name is a key of the map exactly when an in-range bank line of that source
\* was left unmatched, so the map has no key when every bank line is matched.
NoEmptyGroup ==
    (pc = "totals" \/ Returned) =>
        /\ \A n \in DOMAIN result.UnmatchedBankStatementLines :
              result.UnmatchedBankStatementLines[n] # <<>>
        /\ DOMAIN result.UnmatchedBankStatementLines
              = {bankStmts[j].BankName : j \in DOMAIN bankStmts \ PairedBank}
        /\ (DOMAIN bankStmts \subseteq PairedBank)
              => result.UnmatchedBankStatementLines = EmptyMap

\* a returned result over lines of two sources: every line of one source is
\* matched and the source has no key, the other source has a matched and an
\* unmatched line and has a key
NoEmptyGroupWitness ==
    /\ Returned
    /\ \E a, b \in BankNames :
          /\ a # b
          /\ \E j \in DOMAIN bankStmts : bankStmts[j].BankName = a
          /\ UnpairedOf(a) = {}
          /\ a \notin DOMAIN result.UnmatchedBankStatementLines
          /\ \E j \in PairedBank : bankStmts[j].BankName = b
          /\ UnpairedOf(b) # {}
          /\ b \in DOMAIN result.UnmatchedBankStatementLines

\* s can be obtained from t by dropping elements (order and elements unchanged)
RECURSIVE IsSubsequence(_, _)
IsSubsequence(s, t) ==
    IF s = <<>> THEN TRUE
    ELSE IF t = <<>> THEN FALSE
    ELSE IF Head(s) = Head(t) THEN IsSubsequence(Tail(s), Tail(t))
    ELSE IsSubsequence(s, Tail(t))

\* StartDate is at 00:00:00 of a day and EndDate at 23:59:59 of a day
WholeDayRange == startDate % SecondsPerDay = 0 /\ endDate % SecondsPerDay = EndOfDayOffset

\* C27 (Consistent filtering of the two sides): each filter returns an
\* order-preserving subsequence of the parsed records, with the records
\* unchanged; and for a whole-day range a system transaction (any time of day)
\* and a bank line (dated at midnight) of the same calendar date are either both
\* kept or both dropped.
FiltersConsistent ==
    /\ SystemFiltered => IsSubsequence(systemTxs, ParsedSystemTxs)
    /\ BankFiltered => IsSubsequence(bankStmts, ParsedBankStmts)
    /\ (BankFiltered /\ WholeDayRange) =>
          \A i \in DOMAIN ParsedSystemTxs : \A j \in DOMAIN ParsedBankStmts :
              (/\ FormatDate(ParsedSystemTxs[i].TransactionTime)
                     = FormatDate(ParsedBankStmts[j].Date)
               /\ ParsedBankStmts[j].Date % SecondsPerDay = 0)
                  => (ParsedSystemTxs[i] \in Range(systemTxs)
                         <=> ParsedBankStmts[j] \in Range(bankStmts))

\* both filters have run on a whole-day range: a system transaction in the
\* course of a day and a bank line of that day are both kept, another
\* transaction and another line of one day are both dropped
FiltersConsistentWitness ==
    /\ BankFiltered
    /\ WholeDayRange
    /\ \E i \in DOMAIN ParsedSystemTxs : \E j \in DOMAIN ParsedBankStmts :
          /\ ParsedSystemTxs[i].TransactionTime % SecondsPerDay # 0
          /\ FormatDate(ParsedSystemTxs[i].TransactionTime) = FormatDate(ParsedBankStmts[j].Date)
          /\ ParsedSystemTxs[i] \in Range(systemTxs)
          /\ ParsedBankStmts[j] \in Range(bankStmts)
    /\ \E i \in DOMAIN ParsedSystemTxs : \E j \in DOMAIN ParsedBankStmts :
          /\ FormatDate(ParsedSystemTxs[i].TransactionTime) = FormatDate(ParsedBankStmts[j].Date)
          /\ ParsedSystemTxs[i] \notin Range(systemTxs)
          /\ ParsedBankStmts[j] \notin Range(bankStmts)

\* the number of data rows in the files listed before file f
RECURSIVE RowsBefore(_)
RowsBefore(f) == IF f <= 1 THEN 0 ELSE RowsBefore(f - 1) + Len(bankFiles[f - 1].rows)

\* the place in the list of the file a bank line came from
FileOf(bankStmt) == CHOOSE f \in DOMAIN bankFiles : bankFiles[f].name = bankStmt.BankName

\* C28 (Merging of the bank files): the parsed bank lines are the rows of the
\* files in file-list order, the rows of each file in their order, each line
\* tagged with the name of its file; the pairing breaks ties in that order, so a
\* system transaction with candidates of its key in two files never takes one
\* of the later file while one of the earlier file is left free; and an empty
\* file list parses without error to no bank line.
MergedInFileOrder ==
    /\ pc = "filterBank" =>
          /\ Len(bankStmts) = RowsBefore(Len(bankFiles) + 1)
          /\ \A f \in DOMAIN bankFiles : \A i \in DOMAIN bankFiles[f].rows :
                LET line == bankStmts[RowsBefore(f) + i]
                    row == bankFiles[f].rows[i]
                IN  /\ line.UniqueIdentifier = row.unique_identifier
                    /\ line.Amount = row.amount
                    /\ line.Date = row.date
                    /\ line.BankName = bankFiles[f].name
    /\ BankFiltered =>
          \A a, b \in DOMAIN bankStmts : a < b => FileOf(bankStmts[a]) <= FileOf(bankStmts[b])
    /\ \A p \in pairs : \A b \in DOMAIN bankStmts :
          (/\ BankKey(strategy, bankStmts[b]) = BankKey(strategy, bankStmts[p[2]])
           /\ FileOf(bankStmts[b]) < FileOf(bankStmts[p[2]]))
              => \E q \in pairs : q[2] = b /\ q[1] < p[1]
    /\ bankFiles = <<>> =>
          /\ pc \notin {"parseBank", "done"} => ret = "none"
          /\ pc \in {"filterBank", "index", "match", "totals"} => bankStmts = <<>>
          /\ (pc = "done" /\ TransactionParseCSVOK(sysFile) /\ ~After(startDate, endDate))
                => /\ ret = "ok"
                   /\ result.TotalBankStatementLines = 0
                   /\ result.UnmatchedBankStatementLines = EmptyMap

\* a returned result over two files that hold the same line: the system
\* transaction is paired with the line of the file listed first, the line of
\* the second file is left unmatched
MergedInFileOrderWitness ==
    /\ Returned
    /\ Len(bankFiles) = 2
    /\ \E p \in pairs : \E b \in DOMAIN bankStmts :
          /\ FileOf(bankStmts[p[2]]) = 1
          /\ FileOf(bankStmts[b]) = 2
          /\ b \notin PairedBank
          /\ BankKey(strategy, bankStmts[b]) = BankKey(strategy, bankStmts[p[2]])
          /\ bankStmts[b].UniqueIdentifier = bankStmts[p[2]].UniqueIdentifier

\* main has passed the flags on to Reconcile
FlagsAccepted == pc # "flags" /\ ret # "fatal"

\* C29 (Command line date handling): when -end is given the range passed to
\* Reconcile starts at 00:00:00 of the start date and ends at 23:59:59 of the
\* end date, and (the files being there) the run is rejected if and only if the
\* start date is a later calendar day than the end date, so equal dates are
\* accepted; when -end is left out the range is the start date's calendar day,
\* 00:00:00 to 23:59:59, and exactly the records of that day are processed.
\* Reconcile never rejects a range main has accepted.
CLIDateHandling ==
    /\ FlagsAccepted =>
          /\ startDate = flags.start * 86400
          /\ flags.endGiven => endDate = flags.end * 86400 + 86399
          /\ ~flags.endGiven => endDate = flags.start * 86400 + 86399
          /\ givenEndDate = endDate
    /\ (pc # "flags" /\ FilesExist) =>
          (ret = "fatal" <=> (flags.endGiven /\ flags.start > flags.end))
    /\ ret = "error" => ~After(startDate, endDate)
    /\ (BankFiltered /\ ~flags.endGiven) =>
          /\ systemTxs = SelectSeq(ParsedSystemTxs,
                            LAMBDA t : t.TransactionTime \div 86400 = flags.start)
          /\ bankStmts = SelectSeq(ParsedBankStmts, LAMBDA b : b.Date \div 86400 = flags.start)

\* a run with -start and -end on the same day that was accepted and returned a
\* result with a pair of that day, the records of the next day left out
CLIDateHandlingWitness ==
    /\ Returned
    /\ flags.endGiven
    /\ flags.start = flags.end
    /\ pairs # {}
    /\ Len(ParsedSystemTxs) > Len(systemTxs)
    /\ Len(ParsedBankStmts) > Len(bankStmts)

\* run is a state of the call that starts in the state start and runs alone
RECURSIVE OnPathFrom(_, _)
OnPathFrom(start, run) ==
    \/ start = run
    \/ start.pc # "done" /\ OnPathFrom(RunStep(start), run)

\* the state in which a call that runs alone returns
RECURSIVE RunToEnd(_)
RunToEnd(run) == IF run.pc = "done" THEN run ELSE RunToEnd(RunStep(run))

\* C23 (Independent runs): two calls of Reconcile on different inputs, their
\* steps interleaved in any order, never see each other: each call is at every
\* moment in a state it also passes through when it runs alone, and when it
\* has returned it has returned exactly the result, or the error, of the call
\* that runs alone on its input.
RunsIndependent ==
    \A r \in DOMAIN runs :
        /\ OnPathFrom(NewRun(runs[r].input), runs[r])
        /\ runs[r].pc = "done" =>
              /\ runs[r].ret = RunToEnd(NewRun(runs[r].input)).ret
              /\ runs[r].result = RunToEnd(NewRun(runs[r].input)).result

\* one call is in the middle of its pairing pass with its index built and a
\* pair formed, while the other call, on other bank lines, has built its own
\* different index
RunsIndependentWitness ==
    /\ DOMAIN runs = RunIds
    /\ \E a, b \in RunIds :
          /\ a # b
          /\ runs[a].pc = "match"
          /\ runs[a].sysIdx = 2
          /\ runs[a].matchedBankStmts # {}
          /\ runs[b].pc = "match"
          /\ runs[b].sysIdx = 1
          /\ runs[b].bankStmtIndex # runs[a].bankStmtIndex
          /\ runs[b].bankStmtIndex # EmptyMap

====
